---------------------------- MODULE Spec2Model ----------------------------
(***************************************************************************)
(* The oemer -> TensorFlow Lite conversion scripts as one state machine.    *)
(*                                                                         *)
(*   script = "simple"  convert_oemer_simple.py   (main, convert_models,    *)
(*                      create_mock_tflite_models)                          *)
(*   script = "tflite"  convert_oemer_to_tflite.py (main,                   *)
(*                      OemerToTFLiteConverter.convert_and_validate)        *)
(*   script = "api"     a direct call of the public method                  *)
(*                      OemerToTFLiteConverter.pytorch_to_tflite            *)
(*                                                                         *)
(* A program position is a pair <<stage, job>>.  Every external call that   *)
(* can raise (checkpoint load, ONNX export, ONNX -> TensorFlow bridge,      *)
(* TFLite conversion) is one step.  Whether a job's real-model chain would  *)
(* fail, and at which stage first, is a property of the environment; it is  *)
(* recorded in realFail when the run enters the pipeline.  `import onnx`    *)
(* failing is the export stage failing with nothing written (tflite         *)
(* script, line 169) or the bridge stage of the first job failing with no   *)
(* directory written (simple script, line 117).                            *)
(*                                                                         *)
(* Sizes are kept in bytes.  The scripts compare size1 + size2 with 50      *)
(* where sizeN = bytes / (1024 * 1024); a division by 2^20 and the sum of   *)
(* two such quotients are exact in binary floating point for every file     *)
(* size below 2^53 bytes, so the comparison is the comparison of the byte   *)
(* total with 50 * 1024 * 1024.                                            *)
(***************************************************************************)
EXTENDS Integers, Sequences, FiniteSets, TLC

\* ------------------------------------------------------------------ bounds
\* Number of runs into the same output directory (SpecRuns).
MaxRuns == 2

\* --------------------------------------------------------------- constants
MiB == 1048576
BudgetMB == 50

Staff == "staff_detector"
Symbol == "symbol_recognizer"
Jobs == {Staff, Symbol}
NoJob == "-"

PACKAGES_REQUIRED == {"tensorflow", "torch", "torchvision", "oemer"}

\* quantization_type values a caller can pass ("int4" stands for any unknown one)
QuantTypes == {"float16", "int8", "none", "int4"}

\* First stage at which a job's real-model chain fails ("none": it does not).
Stages == {"none", "load", "export", "bridge", "convert"}
Unknown == [j \in Jobs |-> "unknown"]

\* Artifact sizes (bytes) the converter can produce: small, and around half
\* of the budget so that totals fall below, on and above 50 MB.
HalfBudget == (BudgetMB * MiB) \div 2
Sizes == {MiB, HalfBudget, HalfBudget + 1}

VARIABLES
    script,     \* which entry point this run executes
    mock,       \* args.mock
    checkOnly,  \* args.check_only
    deps,       \* the required packages that are not installed
    run,        \* index of the current run into the output directory
    prior,      \* the artifact files the directory held when this run began
    pc,         \* <<stage, job>>
    realFail,   \* [Jobs -> Stages]; "unknown" before the pipeline is entered
    quant,      \* quantization_type of the current pytorch_to_tflite call
    converter,  \* configuration of the TFLiteConverter at its last convert()
    dir,        \* files of the output directory
    writes,     \* [Jobs -> Seq(provenance)]: artifact writes of this run
    sizes,      \* [Jobs -> bytes]: size1/size2, staff_size/symbol_size
    mockCalls,  \* calls of create_mock_tflite_models in this run
    convTries,  \* [Jobs -> Nat]: real-chain converter.convert() calls
    mockTries,  \* [Jobs -> Nat]: mock converter.convert() calls
    mockFailed, \* the job whose mock conversion raised, or NoJob
    verdict,    \* "none" | "within" | "exceeds": the budget message printed
    success,    \* "unset" | "true" | "false": main's success variable
    raised,     \* the exception that left the entry point, or "none"
    exitSig,    \* process exit status, -1 while running / no process exit
    log         \* Seq(<<stage, job, outcome>>): the stages executed in this run

vars == <<script, mock, checkOnly, deps, run, prior, pc, realFail, quant, converter,
          dir, writes, sizes, mockCalls, convTries, mockTries, mockFailed,
          verdict, success, raised, exitSig, log>>

Done == <<"done", NoJob>>

\* ------------------------------------------------------------- file system
\* output_dir / f"{model_name}.tflite"; the simple script writes the same
\* names relative to the output directory it has chdir'ed into.
ArtifactPath(name) == [stem |-> name, suffix |-> ".tflite"]
RealArtifactPath(name) == [stem |-> name, suffix |-> ".tflite"]
MockArtifactPath_Renamed(name) == [stem |-> name, suffix |-> "_mock.tflite"]
MockArtifactPath(name) == [stem |-> name, suffix |-> ".tflite"]
OnnxPath(name) == [stem |-> name, suffix |-> ".onnx"]
SavedModelDirSimple(name) == [stem |-> name, suffix |-> "_tf"]
SavedModelDirTflite(name) == [stem |-> name, suffix |-> "_saved_model"]

RemoveFile(d, path) == {f \in d : f.path # path}
WriteFile(d, path, prov, r) ==
    RemoveFile(d, path) \cup {[path |-> path, prov |-> prov, run |-> r]}

NoConverter == [ops |-> "unset", types |-> "unset", opt |-> "unset"]

\* ------------------------------------------------------------------- budget
WithinBudgetSimple(total) == total <= BudgetMB * MiB
ExceedsBudgetTflite_AtLeast(total) == total >= BudgetMB * MiB
ExceedsBudgetTflite(total) == total > BudgetMB * MiB
ReturnTflite(total) == total <= BudgetMB * MiB
ExitSignal(ok) == IF ok THEN 0 ELSE 1

\* --------------------------------------------------------------------- Init
Inputs ==
    /\ script \in {"simple", "tflite", "api"}
    /\ deps \in SUBSET PACKAGES_REQUIRED
    /\ mock \in BOOLEAN
    /\ checkOnly \in BOOLEAN
    /\ script # "simple" => ~mock /\ ~checkOnly

FreshRun ==
    /\ pc = <<"main", NoJob>>
    /\ realFail = Unknown
    /\ quant = "float16"
    /\ converter = NoConverter
    /\ writes = [j \in Jobs |-> <<>>]
    /\ sizes = [j \in Jobs |-> 0]
    /\ mockCalls = 0
    /\ convTries = [j \in Jobs |-> 0]
    /\ mockTries = [j \in Jobs |-> 0]
    /\ mockFailed = NoJob
    /\ verdict = "none"
    /\ success = "unset"
    /\ raised = "none"
    /\ exitSig = -1
    /\ log = <<>>

Init ==
    /\ Inputs
    /\ FreshRun
    /\ run = 1
    /\ prior = {}
    /\ dir = {}

\* ------------------------------------------------------------ shared steps
B2S(b) == IF b THEN "true" ELSE "false"

\* The stage just executed, with how it ended ("ok" or "fail").
Logged(stage, j, failed) ==
    log' = Append(log, <<stage, j, IF failed THEN "fail" ELSE "ok">>)

Float16Config_NoTypes == [ops |-> "unset", types |-> "unset", opt |-> "DEFAULT"]
Float16Config == [ops |-> "unset", types |-> "float16", opt |-> "DEFAULT"]

\* An exception no handler catches: the interpreter prints the traceback and
\* the process ends with status 1.
Crash_Swallowed(exc) ==
    /\ pc' = Done
    /\ raised' = exc
    /\ exitSig' = 0
Crash(exc) ==
    /\ pc' = Done
    /\ raised' = exc
    /\ exitSig' = 1

\* A call of create_mock_tflite_models: from convert_models' two except
\* clauses (the fallback) or from main under --mock.
CallCreateMock ==
    /\ pc' = <<"mock", Staff>>
    /\ mockCalls' = mockCalls + 1

\* ------------------------------------------------- convert_oemer_simple.py
CheckDependencies(missing) == missing # {}

SMain ==
    /\ pc = <<"main", NoJob>>
    /\ UNCHANGED log
    /\ script = "simple"
    /\ IF CheckDependencies(deps) /\ checkOnly
         THEN pc' = Done /\ exitSig' = 1 /\ UNCHANGED mockCalls
       ELSE IF checkOnly
         THEN pc' = Done /\ exitSig' = 0 /\ UNCHANGED mockCalls
       ELSE IF mock
         THEN CallCreateMock /\ UNCHANGED exitSig
       ELSE pc' = <<"s_import", NoJob>> /\ UNCHANGED <<exitSig, mockCalls>>
    /\ UNCHANGED <<script, mock, checkOnly, deps, run, prior, realFail, quant,
                   converter, dir, writes, sizes, convTries, mockTries,
                   mockFailed, verdict, success, raised>>

\* convert_models' own imports (lines 50-51), outside any try
ImportsFail_TensorflowOnly(missing) == "tensorflow" \in missing
ImportsFail(missing) == {"tensorflow", "torch"} \cap missing # {}

SImport ==
    /\ pc = <<"s_import", NoJob>>
    /\ UNCHANGED log
    /\ IF ImportsFail(deps)
         THEN Crash("ImportError") /\ UNCHANGED realFail
         ELSE /\ \E rf \in [Jobs -> Stages] :
                   /\ "oemer" \in deps => rf = [j \in Jobs |-> "load"]
                   /\ realFail' = rf
              /\ pc' = <<"s_load", Staff>>
              /\ UNCHANGED <<raised, exitSig>>
    /\ UNCHANGED <<script, mock, checkOnly, deps, run, prior, quant, converter, dir,
                   writes, sizes, mockCalls, convTries, mockTries, mockFailed,
                   verdict, success>>

SLoad(j) ==
    /\ pc = <<"s_load", j>>
    /\ Logged("load", j, realFail[j] = "load")
    /\ IF realFail[j] = "load"
         THEN CallCreateMock
         ELSE /\ pc' = IF j = Staff THEN <<"s_load", Symbol>>
                                    ELSE <<"s_export", Staff>>
              /\ UNCHANGED mockCalls
    /\ UNCHANGED <<script, mock, checkOnly, deps, run, prior, realFail, quant,
                   converter, dir, writes, sizes, convTries, mockTries,
                   mockFailed, verdict, success, raised, exitSig>>

SExport(j) ==
    /\ pc = <<"s_export", j>>
    /\ Logged("export", j, realFail[j] = "export")
    /\ IF realFail[j] = "export"
         THEN /\ \E partial \in BOOLEAN :
                   dir' = IF partial THEN WriteFile(dir, OnnxPath(j), "tmp", 0)
                                     ELSE dir
              /\ CallCreateMock
         ELSE /\ dir' = WriteFile(dir, OnnxPath(j), "tmp", 0)
              /\ pc' = IF j = Staff THEN <<"s_export", Symbol>>
                                    ELSE <<"s_bridge", Staff>>
              /\ UNCHANGED mockCalls
    /\ UNCHANGED <<script, mock, checkOnly, deps, run, prior, realFail, quant,
                   converter, writes, sizes, convTries, mockTries, mockFailed,
                   verdict, success, raised, exitSig>>

SBridge(j) ==
    /\ pc = <<"s_bridge", j>>
    /\ Logged("bridge", j, realFail[j] = "bridge")
    /\ IF realFail[j] = "bridge"
         THEN /\ \E partial \in BOOLEAN :
                   dir' = IF partial
                            THEN WriteFile(dir, SavedModelDirSimple(j), "tmp", 0)
                            ELSE dir
              /\ CallCreateMock
         ELSE /\ dir' = WriteFile(dir, SavedModelDirSimple(j), "tmp", 0)
              /\ pc' = <<"s_convert", j>>
              /\ UNCHANGED mockCalls
    /\ UNCHANGED <<script, mock, checkOnly, deps, run, prior, realFail, quant,
                   converter, writes, sizes, convTries, mockTries, mockFailed,
                   verdict, success, raised, exitSig>>

SConvert(j) ==
    /\ pc = <<"s_convert", j>>
    /\ Logged("convert", j, realFail[j] = "convert")
    /\ converter' = Float16Config
    /\ convTries' = [convTries EXCEPT ![j] = @ + 1]
    /\ IF realFail[j] = "convert"
         THEN CallCreateMock /\ UNCHANGED <<dir, writes, sizes>>
         ELSE /\ \E s \in Sizes : sizes' = [sizes EXCEPT ![j] = s]
              /\ dir' = WriteFile(dir, RealArtifactPath(j), "real", run)
              /\ writes' = [writes EXCEPT ![j] = Append(@, "real")]
              /\ pc' = IF j = Staff THEN <<"s_bridge", Symbol>>
                                    ELSE <<"s_validate", NoJob>>
              /\ UNCHANGED mockCalls
    /\ UNCHANGED <<script, mock, checkOnly, deps, run, prior, realFail, quant,
                   mockTries, mockFailed, verdict, success, raised, exitSig>>

SValidate ==
    /\ pc = <<"s_validate", NoJob>>
    /\ Logged("validate", NoJob, FALSE)
    /\ verdict' = IF WithinBudgetSimple(sizes[Staff] + sizes[Symbol])
                    THEN "within" ELSE "exceeds"
    /\ success' = B2S(TRUE)
    /\ exitSig' = ExitSignal(TRUE)
    /\ pc' = Done
    /\ UNCHANGED <<script, mock, checkOnly, deps, run, prior, realFail, quant,
                   converter, dir, writes, sizes, mockCalls, convTries,
                   mockTries, mockFailed, raised>>

\* create_mock_tflite_models, one model per step
Mock(j) ==
    /\ pc = <<"mock", j>>
    /\ IF j = Staff /\ "tensorflow" \in deps
         THEN /\ Crash("ImportError")
              /\ UNCHANGED <<converter, dir, writes, sizes, mockTries,
                             mockFailed, success, log>>
         ELSE /\ converter' = Float16Config
              /\ mockTries' = [mockTries EXCEPT ![j] = @ + 1]
              /\ \/ /\ mockFailed' = j
                    /\ Logged("mock", j, TRUE)
                    /\ Crash("Exception")
                    /\ UNCHANGED <<dir, writes, sizes, success>>
                 \/ /\ \E s \in Sizes : sizes' = [sizes EXCEPT ![j] = s]
                    /\ Logged("mock", j, FALSE)
                    /\ dir' = WriteFile(dir, MockArtifactPath(j), "mock", run)
                    /\ writes' = [writes EXCEPT ![j] = Append(@, "mock")]
                    /\ IF j = Staff
                         THEN /\ pc' = <<"mock", Symbol>>
                              /\ UNCHANGED <<success, exitSig>>
                         ELSE /\ pc' = Done
                              /\ success' = B2S(TRUE)
                              /\ exitSig' = ExitSignal(TRUE)
                    /\ UNCHANGED <<mockFailed, raised>>
    /\ UNCHANGED <<script, mock, checkOnly, deps, run, prior, realFail, quant,
                   mockCalls, convTries, verdict>>

\* --------------------------------------------- convert_oemer_to_tflite.py
\* Module-level imports (sys.exit(1) on ImportError), then the entry point.
TImport ==
    /\ pc = <<"main", NoJob>>
    /\ UNCHANGED log
    /\ script \in {"tflite", "api"}
    /\ IF deps # {}
         THEN pc' = Done /\ exitSig' = 1 /\ UNCHANGED <<realFail, quant>>
       ELSE IF script = "tflite"
         THEN /\ \E rf \in [Jobs -> Stages] : realFail' = rf
              /\ pc' = <<"t_load", Staff>>
              /\ UNCHANGED <<exitSig, quant>>
         ELSE /\ \E j \in Jobs, st \in Stages \ {"load"} :
                   /\ realFail' = [Unknown EXCEPT ![j] = st]
                   /\ pc' = <<"p_export", j>>
              /\ \E q \in QuantTypes : quant' = q
              /\ UNCHANGED exitSig
    /\ UNCHANGED <<script, mock, checkOnly, deps, run, prior, converter, dir, writes,
                   sizes, mockCalls, convTries, mockTries, mockFailed, verdict,
                   success, raised>>

\* A RuntimeError leaving load_* or pytorch_to_tflite: convert_and_validate
\* catches it and returns False; a direct caller receives it.
PFail ==
    /\ pc' = Done
    /\ IF script = "tflite"
         THEN /\ success' = B2S(FALSE)
              /\ exitSig' = ExitSignal(FALSE)
              /\ UNCHANGED raised
         ELSE /\ raised' = "RuntimeError"
              /\ UNCHANGED <<success, exitSig>>

\* convert_and_validate, lines 256-260: the statement after a load
AfterLoad_SymbolFirst(j) ==
    IF j = Staff THEN <<"t_load", Symbol>> ELSE <<"p_export", Symbol>>
AfterLoad(j) ==
    IF j = Staff THEN <<"t_load", Symbol>> ELSE <<"p_export", Staff>>

TLoad(j) ==
    /\ pc = <<"t_load", j>>
    /\ Logged("load", j, realFail[j] = "load")
    /\ IF realFail[j] = "load"
         THEN PFail
         ELSE /\ pc' = AfterLoad(j)
              /\ UNCHANGED <<success, exitSig, raised>>
    /\ UNCHANGED <<script, mock, checkOnly, deps, run, prior, realFail, quant,
                   converter, dir, writes, sizes, mockCalls, convTries,
                   mockTries, mockFailed, verdict>>

PExport(j) ==
    /\ pc = <<"p_export", j>>
    /\ Logged("export", j, realFail[j] = "export")
    /\ IF realFail[j] = "export"
         THEN /\ \E partial \in BOOLEAN :
                   dir' = IF partial THEN WriteFile(dir, OnnxPath(j), "tmp", 0)
                                     ELSE dir
              /\ PFail
         ELSE /\ dir' = WriteFile(dir, OnnxPath(j), "tmp", 0)
              /\ pc' = <<"p_bridge", j>>
              /\ UNCHANGED <<success, exitSig, raised>>
    /\ UNCHANGED <<script, mock, checkOnly, deps, run, prior, realFail, quant,
                   converter, writes, sizes, mockCalls, convTries, mockTries,
                   mockFailed, verdict>>

PBridge(j) ==
    /\ pc = <<"p_bridge", j>>
    /\ Logged("bridge", j, realFail[j] = "bridge")
    /\ IF realFail[j] = "bridge"
         THEN /\ \E partial \in BOOLEAN :
                   dir' = IF partial
                            THEN WriteFile(dir, SavedModelDirTflite(j), "tmp", 0)
                            ELSE dir
              /\ PFail
         ELSE /\ dir' = WriteFile(dir, SavedModelDirTflite(j), "tmp", 0)
              /\ pc' = <<"p_convert", j>>
              /\ UNCHANGED <<success, exitSig, raised>>
    /\ UNCHANGED <<script, mock, checkOnly, deps, run, prior, realFail, quant,
                   converter, writes, sizes, mockCalls, convTries, mockTries,
                   mockFailed, verdict>>

\* Lines 199-216: the converter's configuration when convert() is called.
\* The int8 branch's supported_ops is overwritten by line 213.
QuantConfig(q) ==
    [ops |-> "TFLITE_BUILTINS",
     types |-> IF q = "float16" THEN "float16" ELSE "unset",
     opt |-> IF q \in {"float16", "int8"} THEN "DEFAULT" ELSE "unset"]

PConvert(j) ==
    /\ pc = <<"p_convert", j>>
    /\ Logged("convert", j, quant \notin {"float16", "int8", "none"}
                                \/ realFail[j] = "convert")
    /\ IF quant \notin {"float16", "int8", "none"}
         THEN /\ PFail
              /\ UNCHANGED <<converter, convTries, dir, writes, sizes>>
         ELSE /\ converter' = QuantConfig(quant)
              /\ convTries' = [convTries EXCEPT ![j] = @ + 1]
              /\ IF realFail[j] = "convert"
                   THEN PFail /\ UNCHANGED <<dir, writes, sizes>>
                   ELSE /\ \E s \in Sizes : sizes' = [sizes EXCEPT ![j] = s]
                        /\ dir' = RemoveFile(RemoveFile(
                                      WriteFile(dir, ArtifactPath(j), "real", run),
                                      OnnxPath(j)), SavedModelDirTflite(j))
                        /\ writes' = [writes EXCEPT ![j] = Append(@, "real")]
                        /\ pc' = IF script = "api" THEN Done
                                  ELSE IF j = Staff THEN <<"p_export", Symbol>>
                                  ELSE <<"t_validate", NoJob>>
                        /\ UNCHANGED <<success, exitSig, raised>>
    /\ UNCHANGED <<script, mock, checkOnly, deps, run, prior, realFail, quant,
                   mockCalls, mockTries, mockFailed, verdict>>

TValidate ==
    /\ pc = <<"t_validate", NoJob>>
    /\ Logged("validate", NoJob, FALSE)
    /\ verdict' = IF ExceedsBudgetTflite(sizes[Staff] + sizes[Symbol])
                    THEN "exceeds" ELSE "within"
    /\ success' = B2S(ReturnTflite(sizes[Staff] + sizes[Symbol]))
    /\ exitSig' = ExitSignal(ReturnTflite(sizes[Staff] + sizes[Symbol]))
    /\ pc' = Done
    /\ UNCHANGED <<script, mock, checkOnly, deps, run, prior, realFail, quant,
                   converter, dir, writes, sizes, mockCalls, convTries,
                   mockTries, mockFailed, raised>>

\* ------------------------------------------------------- another invocation
\* The script is run again with the same output directory.
NewRun ==
    /\ pc = Done
    /\ run < MaxRuns
    /\ run' = run + 1
    /\ prior' = {f \in dir : f.prov # "tmp"}
    /\ script' \in {"simple", "tflite", "api"}
    /\ deps' \in SUBSET PACKAGES_REQUIRED
    /\ mock' \in BOOLEAN
    /\ checkOnly' \in BOOLEAN
    /\ script' # "simple" => ~mock' /\ ~checkOnly'
    /\ pc' = <<"main", NoJob>>
    /\ realFail' = Unknown
    /\ quant' = "float16"
    /\ converter' = NoConverter
    /\ writes' = [j \in Jobs |-> <<>>]
    /\ sizes' = [j \in Jobs |-> 0]
    /\ mockCalls' = 0
    /\ convTries' = [j \in Jobs |-> 0]
    /\ mockTries' = [j \in Jobs |-> 0]
    /\ mockFailed' = NoJob
    /\ verdict' = "none"
    /\ success' = "unset"
    /\ raised' = "none"
    /\ exitSig' = -1
    /\ log' = <<>>
    /\ UNCHANGED dir

Next ==
    \/ SMain
    \/ SImport
    \/ \E j \in Jobs : SLoad(j)
    \/ \E j \in Jobs : SExport(j)
    \/ \E j \in Jobs : SBridge(j)
    \/ \E j \in Jobs : SConvert(j)
    \/ SValidate
    \/ \E j \in Jobs : Mock(j)
    \/ TImport
    \/ \E j \in Jobs : TLoad(j)
    \/ \E j \in Jobs : PExport(j)
    \/ \E j \in Jobs : PBridge(j)
    \/ \E j \in Jobs : PConvert(j)
    \/ TValidate

NextRuns == Next \/ NewRun

\* One run into an empty output directory.
Spec == Init /\ [][Next]_vars

\* Up to MaxRuns runs into the same output directory.
SpecRuns == Init /\ [][NextRuns]_vars

\* ================================================================== claims
Pipeline == script \in {"simple", "tflite"}
\* the run went past argument and dependency handling
Entered == realFail # Unknown \/ mockCalls > 0
Artifacts == {f \in dir : f.prov \in {"real", "mock"}}
ArtifactOf(j) == {f \in Artifacts : f.path = [stem |-> j, suffix |-> ".tflite"]}
Prov(j) == IF ArtifactOf(j) = {} THEN "absent"
           ELSE (CHOOSE f \in ArtifactOf(j) : TRUE).prov
Written(j, prov) == \E i \in 1..Len(writes[j]) : writes[j][i] = prov
TempFiles == {f \in dir : f.prov = "tmp"}
Total == sizes[Staff] + sizes[Symbol]

\* C1: when a pipeline run has completed, every job has exactly one
\* artifact, real or mock: it is present and it was written once in the run.
C1_OneArtifactPerJob ==
    (pc = Done /\ Pipeline /\ Entered) =>
        \A j \in Jobs : Len(writes[j]) = 1 /\ Prov(j) \in {"real", "mock"}

\* C2: outside mock-only mode a mock artifact is generated for a job only
\* if that job's own real-model chain fails, and a job whose real conversion
\* succeeded ends the run with its artifact of provenance real.
C2_FallbackOnlyOnOwnFailure ==
    (pc = Done /\ Pipeline /\ ~mock) =>
        \A j \in Jobs :
            /\ Written(j, "mock") =>
                   realFail[j] \in {"load", "export", "bridge", "convert"}
            /\ Written(j, "real") => Prov(j) = "real"

\* C3: when the staff checkpoint cannot be loaded, the symbol job's chain
\* has no failing stage and no mock conversion fails, the run ends with
\* success true, the staff artifact mock and the symbol artifact real.
C3_SiblingUnaffected ==
    (/\ pc = Done /\ Pipeline
     /\ realFail[Staff] = "load" /\ realFail[Symbol] = "none"
     /\ mockFailed = NoJob) =>
        success = "true" /\ Prov(Staff) = "mock" /\ Prov(Symbol) = "real"

\* C4: whenever a completed pipeline run produced an artifact for both
\* jobs, success is true and the exit signal is 0, whatever the total size.
C4_BudgetNeverFlips ==
    (pc = Done /\ Pipeline /\ \A j \in Jobs : writes[j] # <<>>) =>
        success = "true" /\ exitSig = 0

\* C5: pytorch_to_tflite called with quantization_type int8 (no calibration
\* data can be passed) ends with an UnsupportedQuantization error, writes
\* no artifact and never runs the conversion.
C5_Int8Rejected ==
    (pc = Done /\ script = "api" /\ deps = {} /\ quant = "int8") =>
        /\ raised = "UnsupportedQuantization"
        /\ \A j \in Jobs : writes[j] = <<>> /\ convTries[j] = 0

C7_Original ==
    (pc = Done /\ deps # {} /\ ~mock) => exitSig = 1
\* C7 (amended): with a required package missing and --mock unset, the run
\* ends with exit signal 1 if --check-only is set, or the script is
\* convert_oemer_to_tflite.py, or tensorflow or torch is missing.
C7_Amended ==
    (/\ pc = Done /\ deps # {} /\ ~mock
     /\ \/ checkOnly
        \/ script # "simple"
        \/ "tensorflow" \in deps
        \/ "torch" \in deps) => exitSig = 1
C7_Witness ==
    /\ pc = Done /\ script = "simple" /\ ~mock /\ ~checkOnly
    /\ deps = {"torch"}
    /\ raised = "ImportError" /\ exitSig = 1

\* C8: after every run that reports success, whatever the earlier runs into
\* the directory left, the artifact files are exactly staff_detector.tflite
\* and symbol_recognizer.tflite, one file each, both written by this run.
C8_TwoArtifactsOverwritten ==
    (pc = Done /\ success = "true") =>
        /\ {f.path : f \in Artifacts} =
               {[stem |-> j, suffix |-> ".tflite"] : j \in Jobs}
        /\ Cardinality(Artifacts) = 2
        /\ \A f \in Artifacts : f.run = run
C8_Witness ==
    /\ pc = Done /\ success = "true" /\ run = 2
    /\ \A j \in Jobs : Written(j, "mock")
    /\ \A j \in Jobs :
          [path |-> [stem |-> j, suffix |-> ".tflite"], prov |-> "real",
           run |-> 1] \in prior

C10_TempFilesRemoved ==
    pc = Done => TempFiles = {}

\* ------------------------------------------------------ order of the stages
RealStagePcs == {"s_load", "s_export", "s_bridge", "s_convert",
                 "t_load", "p_export", "p_bridge", "p_convert"}
StageOfPc(name) ==
    IF name \in {"s_load", "t_load"} THEN "load"
    ELSE IF name \in {"s_export", "p_export"} THEN "export"
    ELSE IF name \in {"s_bridge", "p_bridge"} THEN "bridge"
    ELSE "convert"
Rank(stage) ==
    IF stage = "load" THEN 1 ELSE IF stage = "export" THEN 2
    ELSE IF stage = "bridge" THEN 3 ELSE IF stage = "convert" THEN 4 ELSE 5
RealStages == {"load", "export", "bridge", "convert"}
LogHas(stage, j, out) == \E i \in 1..Len(log) : log[i] = <<stage, j, out>>
LogHasBefore(n, stage, j, out) == \E i \in 1..(n - 1) : log[i] = <<stage, j, out>>
\* the staff job has its artifact or has failed
StaffTerminal ==
    \/ LogHas("convert", Staff, "ok")
    \/ \E st \in RealStages : LogHas(st, Staff, "fail")
\* every stage executed, and the stage about to begin, comes after the
\* successful end of each earlier stage of the same job; no stage runs twice
StagesInOrder ==
    /\ \A i \in 1..Len(log) :
          log[i][1] \in RealStages =>
             \A k \in RealStages :
                Rank(k) < Rank(log[i][1]) => LogHasBefore(i, k, log[i][2], "ok")
    /\ pc[1] \in RealStagePcs =>
          \A k \in RealStages :
             Rank(k) < Rank(StageOfPc(pc[1])) => LogHas(k, pc[2], "ok")
    /\ \A i, k \in 1..Len(log) :
          (log[i][1] = log[k][1] /\ log[i][2] = log[k][2]) => i = k

\* C11 (as stated): in a pipeline run no real-chain stage of the symbol job
\* begins before the staff job is terminal, and within a job the stages run
\* in order, each after the one before it has ended.
C11_Original ==
    Pipeline =>
        /\ (pc[2] = Symbol /\ pc[1] \in RealStagePcs) => StaffTerminal
        /\ StagesInOrder
\* C11 (amended): stages run one at a time and, within a job, in order, each
\* after the successful end of the one before it; both checkpoints are
\* loaded before any model is exported, and the symbol job's bridging and
\* converting (in convert_oemer_to_tflite.py its exporting too) begin only
\* after the staff artifact has been written.
C11_Amended ==
    Pipeline =>
        /\ (pc[2] = Symbol /\ pc[1] \in (RealStagePcs \ {"s_load", "t_load", "s_export"}))
              => LogHas("convert", Staff, "ok")
        /\ \A j \in Jobs, out \in {"ok", "fail"} :
              LogHas("export", j, out) =>
                 \A k \in Jobs : LogHas("load", k, "ok")
        /\ StagesInOrder
C11_Witness ==
    /\ script = "simple"
    /\ pc = <<"s_bridge", Symbol>>
    /\ LogHas("convert", Staff, "ok")
    /\ LogHas("export", Symbol, "ok")
    /\ Len(log) = 6

\* C12: in a pipeline run the budget validation is computed at most once and
\* only after both jobs have ended their conversion, and every run that ends
\* with an artifact written for both jobs (real, fallback or mock-only) has
\* computed the verdict exactly once.
Validations == {i \in 1..Len(log) : log[i][1] = "validate"}
C12_ValidatedOncePerRun ==
    Pipeline =>
        /\ Cardinality(Validations) <= 1
        /\ \A i \in Validations : \A j \in Jobs :
              LogHasBefore(i, "convert", j, "ok") \/ LogHasBefore(i, "mock", j, "ok")
        /\ (pc = Done /\ \A j \in Jobs : writes[j] # <<>>) =>
              Cardinality(Validations) = 1 /\ verdict # "none"

\* C13: with --mock set and --check-only unset the run executes no stage of
\* the real-model chain: only mock conversions run, each with the float16
\* settings, no real artifact is written, and when both mock conversions
\* succeed both artifacts are mock and the exit signal is 0, whatever
\* packages the dependency check found missing.
C13_MockOnlyDirect ==
    (script = "simple" /\ mock /\ ~checkOnly) =>
        /\ pc[1] \in {"main", "mock", "done"}
        /\ realFail = Unknown
        /\ \A i \in 1..Len(log) : log[i][1] = "mock"
        /\ \A j \in Jobs : convTries[j] = 0 /\ ~Written(j, "real")
        /\ (\E j \in Jobs : mockTries[j] > 0) =>
              converter.types = "float16" /\ converter.opt = "DEFAULT"
        /\ (pc = Done /\ \A j \in Jobs : LogHas("mock", j, "ok")) =>
              /\ exitSig = 0
              /\ success = "true"
              /\ \A j \in Jobs : Prov(j) = "mock" /\ writes[j] = <<"mock">>
C13_Witness ==
    /\ pc = Done /\ script = "simple" /\ mock /\ ~checkOnly
    /\ deps = {"torch", "torchvision", "oemer"}
    /\ \A j \in Jobs : LogHas("mock", j, "ok") /\ Prov(j) = "mock"
    /\ exitSig = 0

=============================================================================
